---- MODULE Spec2Model ----
(***************************************************************************)
(* A model of class MyMaze (js/myMaze.js): a flat row-major occupancy      *)
(* grid, the table of obstacle cubes built from it, and the index,         *)
(* coordinate and neighbourhood queries over both.                         *)
(*                                                                         *)
(* JavaScript values that a query can return are tagged records, so that   *)
(* null, undefined, the number 0 and an object stay distinct and the       *)
(* truthiness tests of the source can be modelled as the language defines  *)
(* them.                                                                   *)
(***************************************************************************)
EXTENDS Integers, Sequences, FiniteSets, TLC

VARIABLES constructed, mapData, width, height, geometry, mapObject, call, result

vars == <<constructed, mapData, width, height, geometry, mapObject, call, result>>

(***************************************************************************)
(* Bounds of the model.                                                    *)
(***************************************************************************)
MaxWidth == 2
MaxHeight == 2
MaxLen == 4
MaxSize == 2
MaxCoord == 2
MaxWindow == 3

(***************************************************************************)
(* JavaScript values.                                                      *)
(***************************************************************************)
Null == [t |-> "null"]

Undefined == [t |-> "undefined"]

Num(n) == [t |-> "number", v |-> n]

\* y = height / 2 is kept as the exact fraction, not rounded.
Half(n) == [num |-> n, den |-> 2]

\* if (v): null, undefined and the number 0 are falsy, an object is truthy.
Truthy(v) ==
    CASE v.t = "number" -> v.v # 0
      [] v.t = "object" -> TRUE
      [] OTHER -> FALSE

\* arr[index] of an array of numbers held as a sequence: undefined off the end.
NumAt(arr, index) ==
    IF index >= 0 /\ index < Len(arr) THEN Num(arr[index + 1]) ELSE Undefined

\* v == n for a number n: no number equals null or undefined.
LooseEquals(v, n) == v.t = "number" /\ v.v = n

\* arr[index] of an array of cubes with empty slots: undefined off the end.
ObjAt(arr, index) ==
    IF index >= 0 /\ index < Len(arr) THEN arr[index + 1] ELSE Undefined

\* arr[index] = v for an index inside the array.
ArraySet(arr, index, v) == [arr EXCEPT ![index + 1] = v]

\* new Array(n): n empty slots, each reading as undefined.
NewArray(n) == [k \in 1..n |-> Undefined]

(***************************************************************************)
(* Inputs.                                                                 *)
(***************************************************************************)
\* The map arrays: 0 is passable, 1 is blocked.
MapDatas == UNION {[1..n -> {0, 1}] : n \in 0..MaxLen}

\* new THREE.BoxGeometry(size, size, size): square seen from above.
Geometries == {[width |-> s, height |-> s, depth |-> s] : s \in 1..MaxSize}

\* Grid coordinates and world coordinates handed to the queries.
Coords == -1..MaxCoord

Windows == 1..MaxWindow

(***************************************************************************)
(* Methods of MyMaze that only read the object.                            *)
(***************************************************************************)
\* A createCube that hands x and z to position.set in the wrong order.
createCubeSwapped(id, x, y, z) ==
    [t |-> "object", id |-> id, position |-> [x |-> z, y |-> y, z |-> x]]

\* The mesh is a fresh object; id stands for its reference.
createCube(id, x, y, z) ==
    [t |-> "object", id |-> id, position |-> [x |-> x, y |-> y, z |-> z]]

calcIndex(ix, iy) ==
    LET index == iy * width + ix
    IN  IF index < 0 \/ Len(mapData) <= index THEN Null ELSE Num(index)

\* calcPositionFromIndex on the geometry geom (build runs it on the geometry
\* the constructor has just stored).
calcPositionOf(geom, ix, iy) ==
    [x |-> geom.width * ix, y |-> Half(geom.height), z |-> geom.depth * iy]

calcPositionFromIndex(ix, iy) == calcPositionOf(geometry, ix, iy)

\* A calcIndexFromPosition that takes the column from z and the row from x.
calcIndexFromPositionSwapped(x, y, z) ==
    [ix |-> z \div geometry.depth, iy |-> x \div geometry.width]

calcIndexFromPosition(x, y, z) ==
    [ix |-> x \div geometry.width, iy |-> z \div geometry.depth]

getCellTypeFromIndex(ix, iy) ==
    LET index == calcIndex(ix, iy)
    IN  IF Truthy(index) THEN NumAt(mapData, index.v) ELSE Null

\* A getCellFromIndex that reads the slot after the one it computed.
getCellFromIndexOffByOne(ix, iy) ==
    LET index == calcIndex(ix, iy)
    IN  IF Truthy(index) THEN ObjAt(mapObject, index.v + 1) ELSE Null

getCellFromIndex(ix, iy) ==
    LET index == calcIndex(ix, iy)
    IN  IF Truthy(index) THEN ObjAt(mapObject, index.v) ELSE Null

\* The inner loop of getAroundCells on row iy: columns ix0 .. iw - 1 in
\* order, keeping the cells that pass if (cell).
aroundColumns(ix0, iy, iw) ==
    LET n == IF iw > ix0 THEN iw - ix0 ELSE 0
        scanned == [k \in 1..n |-> getCellFromIndex(ix0 + k - 1, iy)]
    IN  SelectSeq(scanned, Truthy)

\* The outer loop of getAroundCells, from row iy on.
RECURSIVE aroundRows(_, _, _, _)
aroundRows(ix0, iy, iw, ih) ==
    IF iy < ih
    THEN aroundColumns(ix0, iy, iw) \o aroundRows(ix0, iy + 1, iw, ih)
    ELSE <<>>

getAroundCells(x, y, z, iw, ih) ==
    LET i == calcIndexFromPosition(x, y, z)
    IN  aroundRows(i.ix - (iw \div 2), i.iy - (ih \div 2), iw, ih)

(***************************************************************************)
(* build(), on the fields the constructor has just assigned.               *)
(***************************************************************************)
\* The two loops of build, from cell (ix, iy) on; n cubes exist so far.
RECURSIVE buildLoop(_, _, _, _, _, _, _, _, _)
buildLoop(obj, n, index, ix, iy, md, w, h, geom) ==
    IF iy >= h THEN obj
    ELSE IF ix >= w THEN buildLoop(obj, n, index, 0, iy + 1, md, w, h, geom)
    ELSE LET cellType == NumAt(md, index)
         IN  IF LooseEquals(cellType, 1)
             THEN LET pos == calcPositionOf(geom, ix, iy)
                      cube == createCube(n, pos.x, pos.y, pos.z)
                  IN  buildLoop(ArraySet(obj, index, cube), n + 1, index + 1,
                                ix + 1, iy, md, w, h, geom)
             ELSE buildLoop(obj, n, index + 1, ix + 1, iy, md, w, h, geom)

build(md, w, h, geom) == buildLoop(NewArray(Len(md)), 0, 0, 0, 0, md, w, h, geom)

(***************************************************************************)
(* The state machine: one object, constructed once, then queried by a      *)
(* single-threaded caller, one call at a time.  call and result hold the   *)
(* call that has just returned and the value it returned.                  *)
(***************************************************************************)
NoCall == [op |-> "none"]

Init ==
    /\ constructed = FALSE
    /\ mapData = <<>>
    /\ width = 0
    /\ height = 0
    /\ geometry = [width |-> 0, height |-> 0, depth |-> 0]
    /\ mapObject = <<>>
    /\ call = NoCall
    /\ result = Undefined

Constructor(md, w, h, geom) ==
    /\ ~constructed
    /\ constructed' = TRUE
    /\ mapData' = md
    /\ width' = w
    /\ height' = h
    /\ geometry' = geom
    /\ mapObject' = build(md, w, h, geom)
    /\ UNCHANGED <<call, result>>

CalcIndex(ix, iy) ==
    /\ constructed /\ call = NoCall
    /\ call' = [op |-> "calcIndex", ix |-> ix, iy |-> iy]
    /\ result' = calcIndex(ix, iy)
    /\ UNCHANGED <<constructed, mapData, width, height, geometry, mapObject>>

CalcPositionFromIndex(ix, iy) ==
    /\ constructed /\ call = NoCall
    /\ call' = [op |-> "calcPositionFromIndex", ix |-> ix, iy |-> iy]
    /\ result' = calcPositionFromIndex(ix, iy)
    /\ UNCHANGED <<constructed, mapData, width, height, geometry, mapObject>>

CalcIndexFromPosition(x, y, z) ==
    /\ constructed /\ call = NoCall
    /\ call' = [op |-> "calcIndexFromPosition", x |-> x, y |-> y, z |-> z]
    /\ result' = calcIndexFromPosition(x, y, z)
    /\ UNCHANGED <<constructed, mapData, width, height, geometry, mapObject>>

GetCellTypeFromIndex(ix, iy) ==
    /\ constructed /\ call = NoCall
    /\ call' = [op |-> "getCellTypeFromIndex", ix |-> ix, iy |-> iy]
    /\ result' = getCellTypeFromIndex(ix, iy)
    /\ UNCHANGED <<constructed, mapData, width, height, geometry, mapObject>>

GetCellFromIndex(ix, iy) ==
    /\ constructed /\ call = NoCall
    /\ call' = [op |-> "getCellFromIndex", ix |-> ix, iy |-> iy]
    /\ result' = getCellFromIndex(ix, iy)
    /\ UNCHANGED <<constructed, mapData, width, height, geometry, mapObject>>

\* A getAroundCells that takes the cubes it returns out of the table.
GetAroundCellsTaking(x, y, z, iw, ih) ==
    /\ constructed /\ call = NoCall
    /\ call' = [op |-> "getAroundCells", x |-> x, y |-> y, z |-> z,
                iw |-> iw, ih |-> ih]
    /\ result' = getAroundCells(x, y, z, iw, ih)
    /\ mapObject' = [k \in 1..Len(mapObject) |->
                       IF \E j \in 1..Len(result') : result'[j] = mapObject[k]
                       THEN Undefined ELSE mapObject[k]]
    /\ UNCHANGED <<constructed, mapData, width, height, geometry>>

GetAroundCells(x, y, z, iw, ih) ==
    /\ constructed /\ call = NoCall
    /\ call' = [op |-> "getAroundCells", x |-> x, y |-> y, z |-> z,
                iw |-> iw, ih |-> ih]
    /\ result' = getAroundCells(x, y, z, iw, ih)
    /\ UNCHANGED <<constructed, mapData, width, height, geometry, mapObject>>

\* The caller has used the returned value and goes on to its next call.
Return ==
    /\ call # NoCall
    /\ call' = NoCall
    /\ result' = Undefined
    /\ UNCHANGED <<constructed, mapData, width, height, geometry, mapObject>>

\* A caller with no call under way makes any one call, with any arguments.
Idle == constructed /\ call = NoCall

New ==
    /\ ~constructed
    /\ \E md \in MapDatas, w \in 1..MaxWidth, h \in 1..MaxHeight, geom \in Geometries :
          Constructor(md, w, h, geom)

CallCalcIndex == Idle /\ \E ix \in Coords, iy \in Coords : CalcIndex(ix, iy)

CallCalcPositionFromIndex ==
    Idle /\ \E ix \in Coords, iy \in Coords : CalcPositionFromIndex(ix, iy)

CallCalcIndexFromPosition ==
    Idle /\ \E x \in Coords, z \in Coords : CalcIndexFromPosition(x, 0, z)

CallGetCellTypeFromIndex ==
    Idle /\ \E ix \in Coords, iy \in Coords : GetCellTypeFromIndex(ix, iy)

CallGetCellFromIndex ==
    Idle /\ \E ix \in Coords, iy \in Coords : GetCellFromIndex(ix, iy)

CallGetAroundCells ==
    Idle /\ \E x \in Coords, z \in Coords, iw \in Windows, ih \in Windows :
               GetAroundCells(x, 0, z, iw, ih)

Next ==
    \/ New
    \/ CallCalcIndex
    \/ CallCalcPositionFromIndex
    \/ CallCalcIndexFromPosition
    \/ CallGetCellTypeFromIndex
    \/ CallGetCellFromIndex
    \/ CallGetAroundCells
    \/ Return

Spec == Init /\ [][Next]_vars

(***************************************************************************)
(* Vocabulary of the properties.                                           *)
(***************************************************************************)
IsAbsent(v) == v = Null \/ v = Undefined

IsInstance(v) == v.t = "object"

\* width * height = mapData.length, the grids the documentation is about.
Consistent == constructed /\ Len(mapData) = width * height

InGrid(column, row) ==
    column >= 0 /\ column < width /\ row >= 0 /\ row < height

\* The edge of a cell: the geometry is square seen from above.
cellSize == geometry.width

\* The cell an instance stands on, from its position.
CellOf(cube) ==
    [column |-> cube.position.x \div cellSize, row |-> cube.position.z \div cellSize]

\* The window of iw columns and ih rows centred on the cell of (x, y, z):
\* [centre - floor(n/2), centre + ceil(n/2)) in both directions.
WindowColumns(c) ==
    LET centre == calcIndexFromPosition(c.x, c.y, c.z).ix
    IN  (centre - (c.iw \div 2))..(centre + ((c.iw + 1) \div 2) - 1)

WindowRows(c) ==
    LET centre == calcIndexFromPosition(c.x, c.y, c.z).iy
    IN  (centre - (c.ih \div 2))..(centre + ((c.ih + 1) \div 2) - 1)

\* The columns and rows the loops of getAroundCells visit.
ScannedColumns(c) ==
    (calcIndexFromPosition(c.x, c.y, c.z).ix - (c.iw \div 2))..(c.iw - 1)

ScannedRows(c) ==
    (calcIndexFromPosition(c.x, c.y, c.z).iy - (c.ih \div 2))..(c.ih - 1)

\* The coordinates of the window in row-major order.
WindowScan(c) ==
    LET column0 == calcIndexFromPosition(c.x, c.y, c.z).ix - (c.iw \div 2)
        row0 == calcIndexFromPosition(c.x, c.y, c.z).iy - (c.ih \div 2)
    IN  [k \in 1..(c.iw * c.ih) |->
           [column |-> column0 + ((k - 1) % c.iw), row |-> row0 + ((k - 1) \div c.iw)]]

IsBlockedInGrid(p) ==
    InGrid(p.column, p.row) /\ mapData[p.row * width + p.column + 1] = 1

\* What the symmetric window holds: the instances of its blocked cells.
WindowInstances(c) ==
    LET hits == SelectSeq(WindowScan(c), IsBlockedInGrid)
    IN  [k \in 1..Len(hits) |-> mapObject[hits[k].row * width + hits[k].column + 1]]

\* The value the call c returns in the current state.
Replay(c) ==
    CASE c.op = "calcIndex" -> calcIndex(c.ix, c.iy)
      [] c.op = "calcPositionFromIndex" -> calcPositionFromIndex(c.ix, c.iy)
      [] c.op = "calcIndexFromPosition" -> calcIndexFromPosition(c.x, c.y, c.z)
      [] c.op = "getCellTypeFromIndex" -> getCellTypeFromIndex(c.ix, c.iy)
      [] c.op = "getCellFromIndex" -> getCellFromIndex(c.ix, c.iy)
      [] c.op = "getAroundCells" -> getAroundCells(c.x, c.y, c.z, c.iw, c.ih)

(***************************************************************************)
(* Properties.                                                             *)
(***************************************************************************)

\* C1: a construction with mapData.length # width * height is rejected, so
\* no constructed object (and no instance table) has mismatched dimensions.
C1_InvalidDimensionsRejected ==
    constructed => Len(mapData) = width * height

\* C2: cellType(column, row) is absent exactly when row * width + column is
\* outside [0, mapData.length), and is the cell's value otherwise; so
\* cellType(0, 0) is mapData[0].
C2_CellTypeAbsentIffIndexOutside ==
    call.op = "getCellTypeFromIndex" =>
        LET index == call.iy * width + call.ix
        IN  IF index < 0 \/ index >= Len(mapData)
            THEN IsAbsent(result)
            ELSE result = Num(mapData[index + 1])

C4_BuildOneInstancePerBlockedCell ==
    Consistent =>
        /\ Len(mapObject) = Len(mapData)
        /\ \A row \in 0..(height - 1), column \in 0..(width - 1) :
              LET index == row * width + column
                  cube == mapObject[index + 1]
              IN  IF mapData[index + 1] = 1
                  THEN /\ IsInstance(cube)
                       /\ cube.position = [x |-> column * cellSize,
                                           y |-> Half(geometry.height),
                                           z |-> row * cellSize]
                  ELSE cube = Undefined
        /\ \A j, k \in 1..Len(mapObject) :
              (j # k /\ IsInstance(mapObject[j])) => mapObject[j] # mapObject[k]
        /\ Cardinality({k \in 1..Len(mapObject) : IsInstance(mapObject[k])})
              = Cardinality({k \in 1..Len(mapData) : mapData[k] = 1})

C4_Witness ==
    /\ Consistent /\ width = 2 /\ height = 2 /\ cellSize = 2
    /\ mapData = <<1, 0, 1, 1>>
    /\ IsInstance(mapObject[3]) /\ mapObject[2] = Undefined

\* C5: for a cell (column, row) of the grid, toGridCoordinate of
\* toWorldPosition(column, row) is (column, row).
C5_GridWorldRoundTrip ==
    (call.op = "calcPositionFromIndex" /\ InGrid(call.ix, call.iy)) =>
        calcIndexFromPosition(result.x, result.y, result.z)
            = [ix |-> call.ix, iy |-> call.iy]

C5_Witness ==
    /\ call.op = "calcPositionFromIndex" /\ InGrid(call.ix, call.iy)
    /\ call.ix = 1 /\ call.iy = 0 /\ cellSize = 2
    /\ result.x = 2 /\ result.z = 0

\* C6: every instance obstaclesNear returns stands on a cell inside the
\* requested window and inside the grid, and no scanned coordinate outside
\* the grid yields an instance.
C6_NearInsideWindowAndGrid ==
    call.op = "getAroundCells" =>
        /\ \A k \in 1..Len(result) :
              LET cell == CellOf(result[k])
              IN  /\ cell.column \in WindowColumns(call)
                  /\ cell.row \in WindowRows(call)
                  /\ InGrid(cell.column, cell.row)
        /\ \A column \in ScannedColumns(call), row \in ScannedRows(call) :
              ~InGrid(column, row) => ~IsInstance(getCellFromIndex(column, row))

\* C7: obstaclesNear returns, in row-major order, exactly the instances of
\* the blocked cells of the grid that lie in the window centred on the cell
\* of the query position.
C7_NearIsSymmetricWindow ==
    (Consistent /\ call.op = "getAroundCells") => result = WindowInstances(call)

\* C8: for a column outside [0, width) or a row outside [0, height),
\* toLinearIndex, cellType and instanceAt return the absence result.
C8_OutsideGridIsAbsent ==
    (call.op \in {"calcIndex", "getCellTypeFromIndex", "getCellFromIndex"}
        /\ ~InGrid(call.ix, call.iy)) => IsAbsent(result)

\* C9: a query leaves mapData, width, height, the geometry and the instance
\* table as they were, and the same query made again returns the same value.
C9_QueriesArePure ==
    [][constructed =>
          /\ UNCHANGED <<constructed, mapData, width, height, geometry, mapObject>>
          /\ call' # NoCall => result' = Replay(call)']_vars

C9_Witness ==
    /\ Consistent /\ call.op = "getAroundCells" /\ Len(result) >= 2

\* C10: the sequence obstaclesNear returns holds each instance at most once.
C10_NearHasNoDuplicates ==
    call.op = "getAroundCells" =>
        \A j, k \in 1..Len(result) : j # k => result[j] # result[k]

====
